---- MODULE Spec2Model ----
(***************************************************************************)
(* Order lifecycle and basket reconciliation of the retail-procurement     *)
(* backend (backend/views.py): the basket (BasketView), checkout           *)
(* (OrderView), supplier-side fulfillment (PartnerOrders) and the contact  *)
(* records (ContactView) they depend on, over the Order / OrderItem /      *)
(* Contact / ProductInfo / Shop tables; and the price-list synchronizer    *)
(* (PartnerUpdate, PartnerExport) over the Shop / Category / Product /     *)
(* ProductInfo / Parameter / ProductParameter tables.                      *)
(*                                                                         *)
(* Spec: requests are served one by one; a request is one atomic step      *)
(* that leaves the request in req and its response in resp, and the next   *)
(* request is served once that response has been returned to the client.   *)
(* Spec serves the buyers' and the fulfillment requests over the catalog    *)
(* of the fixture; SpecCatalog serves the import and export requests of    *)
(* the suppliers.                                                          *)
(***************************************************************************)
EXTENDS Integers, Sequences, FiniteSets, Bags, TLC

\* ------------------------------------------------------------------ bounds
\* Order rows ever created (autoincrement ids 1..MaxOrders)
MaxOrders == 2
\* Contact rows ever created
MaxContacts == 1
\* largest quantity a request names
MaxQty == 2
\* longest "items" list a request carries
MaxItems == 2

\* ------------------------------------------------------------ the users
Buyers == {"b1", "b2"}
Suppliers == {"s1", "s2"}
Users == Buyers \cup Suppliers

\* request.user.type
UserType(u) == IF u \in Suppliers THEN "shop" ELSE "buyer"

\* STATE_CHOICES of backend.models: the state enum of an Order
STATE_CHOICES == {"basket", "new", "confirmed", "assembled", "sent", "delivered", "canceled"}

\* mutant of EligibleStates: a supplier may change an order in any state
EligibleStates_All == STATE_CHOICES

\* state__in=[...] of PartnerOrders.post: the states a supplier may change
EligibleStates == {"new", "confirmed", "assembled", "sent"}

VARIABLES
  shops,          \* Shop rows: [id, user, name]
  categories,     \* Category rows: [id, name, shops]  (shops: the many-to-many)
  products,       \* Product rows: [id, name, category]
  productSeq,     \* last Product id handed out
  product_infos,  \* ProductInfo rows (offers): [id, shop, product, external_id,
                  \*   model, price, price_rrc, quantity]
  productInfoSeq, \* last ProductInfo id handed out
  parameters,     \* Parameter rows: their names
  product_parameters, \* ProductParameter rows: [product_info, parameter, value]
  contacts,       \* Contact rows: [id, user]
  contactSeq,     \* last Contact id handed out
  orders,         \* Order rows: [id, user, state, contact]  (contact 0 = NULL)
  orderSeq,       \* last Order id handed out
  items,          \* OrderItem rows, a bag of [order, product_info, quantity]
  req,            \* the request being answered: [op, user, args]
  resp,           \* its response: [status, error, count, mail]
  anon_history,   \* AnonRateThrottle: length of the history list that the
                  \*   cache keeps for the client without a token
  user_history,   \* UserRateThrottle: length of the client's history list
  inflight        \* the basket requests that are being processed, by worker

\* the catalog tables that only the import writes
catalog == <<categories, products, productSeq, productInfoSeq, parameters,
             product_parameters>>

\* the request histories that the throttle classes keep in the cache
throttle == <<anon_history, user_history>>

vars == <<catalog, shops, product_infos, contacts, contactSeq, orders, orderSeq, items, req, resp,
          throttle, inflight>>

\* ---------------------------------------------------------- the responses
\* the request: the view method, request.user and the fields of request.data
Request(op, u, args) == [op |-> op, user |-> u, args |-> args]

\* JsonResponse({'Status': ..., ...}); status "fault" is an exception that
\* leaves the view (HTTP 500); mail is the notification the request sent.
Response(status, error, count, mail) ==
  [status |-> status, error |-> error, count |-> count, mail |-> mail]

\* the count field of a response that carries no count
NoCount == -1

Ok(count, mail) == Response("ok", "none", count, mail)
Fail(error) == Response("fail", error, NoCount, "none")
Fault(error) == Response("fault", error, NoCount, "none")

\* no request is being answered: the last response has been returned
NoRequest == Request("none", "none", <<>>)
NoResponse == Response("none", "none", NoCount, "none")

\* ------------------------------------------------------------- the inputs
OrderIdInputs == 0..MaxOrders
ContactIdInputs == 0..MaxContacts
\* the offer ids a request names: the offers of Init and one that does not exist
ProductInfoInputs == 1..3
QuantityInputs == 0..MaxQty
ItemInputs == [product_info : ProductInfoInputs, quantity : QuantityInputs]
ItemsListInputs == UNION {[1..n -> ItemInputs] : n \in 0..MaxItems}
StatusInputs == STATE_CHOICES \cup {"", "bogus"}

\* the workers that process the requests of one buyer side by side
MaxWorkers == 2
Workers == 1..MaxWorkers

\* the request that a worker is processing: the view method, the basket it
\* has looked up, the items of items_list it has taken (n) and counted
\* (count), the item it took last, and the response once there is one
InFlight(op, basket, n, count, item, response) ==
  [op |-> op, basket |-> basket, n |-> n, count |-> count, item |-> item,
   resp |-> response]

\* no item of items_list has been taken
NoItem == [product_info |-> 0, quantity |-> 0]

\* a worker that is processing no request
Idle == InFlight("none", 0, 0, 0, NoItem, NoResponse)

\* ------------------------------------------------------------------- Init
\* the ProductInfo row of the fixture: an offer of the shop on product 1
FixtureOffer(id, shop) ==
  [id |-> id, shop |-> shop, product |-> 1, external_id |-> 1001, model |-> "",
   price |-> 1, price_rrc |-> 2, quantity |-> 1]

\* no document has been loaded
NoDocument == [kind |-> "none"]

\* The database of the test fixture: two suppliers, each with a shop that
\* lists one offer of the one product; no contact, no order, no order line.
Init ==
  /\ shops = {[id |-> 1, user |-> "s1", name |-> "shop1"],
              [id |-> 2, user |-> "s2", name |-> "shop2"]}
  /\ categories = {[id |-> 1, name |-> "c1", shops |-> {}]}
  /\ products = {[id |-> 1, name |-> "phone", category |-> 1]}
  /\ productSeq = 1
  /\ product_infos = {FixtureOffer(1, 1), FixtureOffer(2, 2)}
  /\ productInfoSeq = 2
  /\ parameters = {}
  /\ product_parameters = {}
  /\ contacts = {}
  /\ contactSeq = 0
  /\ orders = {}
  /\ orderSeq = 0
  /\ items = EmptyBag
  /\ req = NoRequest
  /\ resp = NoResponse
  /\ anon_history = 0
  /\ user_history = 0
  /\ inflight = [w \in Workers |-> Idle]

\* ---------------------------------------------------------------- queries
\* Order.objects.filter(user_id=u, state='basket')
Baskets(os, u) == {o \in os : o.user = u /\ o.state = "basket"}

\* the rows of the bag its that are in the set S, and their number
Rows(its, S) == [l \in S \cap DOMAIN its |-> its[l]]
RowCount(its, S) == BagCardinality(Rows(its, S))

\* OrderItem.objects.filter(order=b)
LinesOf(its, b) == {l \in DOMAIN its : l.order = b}

\* OrderItem.objects.filter(order=b, product_info_id=p)
LinesOn(its, b, p) == {l \in DOMAIN its : l.order = b /\ l.product_info = p}

\* mutant of GetOrCreateBasket: a new row is created whatever rows exist
GetOrCreateBasket_AlwaysCreate(os, seq, u) ==
  [raised |-> FALSE, id |-> seq + 1,
   orders |-> os \cup {[id |-> seq + 1, user |-> u, state |-> "basket", contact |-> 0]},
   seq |-> seq + 1]

\* Order.objects.get_or_create(user_id=u, state='basket'): the row that
\* matches, else a new row; more than one match raises MultipleObjectsReturned.
GetOrCreateBasket(os, seq, u) ==
  LET bs == Baskets(os, u) IN
    IF Cardinality(bs) > 1
      THEN [raised |-> TRUE, id |-> 0, orders |-> os, seq |-> seq]
    ELSE IF bs = {}
      THEN [raised |-> FALSE, id |-> seq + 1,
            orders |-> os \cup {[id |-> seq + 1, user |-> u, state |-> "basket", contact |-> 0]},
            seq |-> seq + 1]
    ELSE [raised |-> FALSE, id |-> (CHOOSE o \in bs : TRUE).id, orders |-> os, seq |-> seq]

\* ------------------------------------------------------------ BasketView
\* OrderItem.quantity as the serializer validates it: a positive integer
QuantityIsValid(q) == q >= 1

\* mutant of OrderItemSerializerIsValid: any quantity passes
OrderItemSerializerIsValid_AnyQuantity(pis, it) ==
  \E p \in pis : p.id = it.product_info

\* OrderItemSerializer(data=...).is_valid(): the offer exists, the quantity is valid
OrderItemSerializerIsValid(pis, it) ==
  /\ \E p \in pis : p.id = it.product_info
  /\ QuantityIsValid(it.quantity)

\* the (order, product_info) uniqueness of OrderItem: may a line be inserted
OrderItemIsUnique(its, b, p) == LinesOn(its, b, p) = {}

\* mutant of SaveOrderItems: a failing item rolls the lines of the items
\* before it back
RECURSIVE SaveOrderItems_Rollback(_, _, _, _, _, _)
SaveOrderItems_Rollback(pis, its, b, list, i, c) ==
  LET undone == its (-) SetToBag({[order |-> b, product_info |-> list[j].product_info,
                                   quantity |-> list[j].quantity] : j \in 1..(i - 1)})
  IN IF i > Len(list)
       THEN [items |-> its, resp |-> Ok(c, "none")]
     ELSE IF ~(\E p \in pis : p.id = list[i].product_info) \/ list[i].quantity < 1
       THEN [items |-> undone, resp |-> Fail("ValidationError")]
     ELSE IF LinesOn(its, b, list[i].product_info) # {}
       THEN [items |-> undone, resp |-> Fail("IntegrityError")]
     ELSE SaveOrderItems_Rollback(pis,
            its (+) SetToBag({[order |-> b, product_info |-> list[i].product_info,
                               quantity |-> list[i].quantity]}),
            b, list, i + 1, c + 1)

\* the loop of BasketView.post over items_list[i..], basket b, created so far c
RECURSIVE SaveOrderItems(_, _, _, _, _, _)
SaveOrderItems(pis, its, b, list, i, c) ==
  IF i > Len(list)
    THEN [items |-> its, resp |-> Ok(c, "none")]
  ELSE IF ~OrderItemSerializerIsValid(pis, list[i])
    THEN [items |-> its, resp |-> Fail("ValidationError")]
  ELSE IF ~OrderItemIsUnique(its, b, list[i].product_info)
    THEN [items |-> its, resp |-> Fail("IntegrityError")]
  ELSE SaveOrderItems(pis,
         its (+) SetToBag({[order |-> b, product_info |-> list[i].product_info,
                            quantity |-> list[i].quantity]}),
         b, list, i + 1, c + 1)

\* BasketView.post: add_items(u, list)
BasketPost(u, list) ==
  IF list = <<>>
    THEN /\ resp' = Fail("BadFormat")
         /\ UNCHANGED <<throttle, inflight, catalog, shops, product_infos, contacts, contactSeq, orders, orderSeq, items>>
  ELSE
    LET g == GetOrCreateBasket(orders, orderSeq, u) IN
      IF g.raised
        THEN /\ resp' = Fault("MultipleObjectsReturned")
             /\ UNCHANGED <<throttle, inflight, catalog, shops, product_infos, contacts, contactSeq, orders, orderSeq, items>>
      ELSE
        LET r == SaveOrderItems(product_infos, items, g.id, list, 1, 0) IN
          /\ g.seq <= MaxOrders
          /\ orders' = g.orders
          /\ orderSeq' = g.seq
          /\ items' = r.items
          /\ resp' = r.resp
          /\ UNCHANGED <<throttle, inflight, catalog, shops, product_infos, contacts, contactSeq>>

\* mutant of BasketDelete: the basket order goes with its lines
BasketDelete_DeletesBasket(u) ==
  LET bs == Baskets(orders, u) IN
    IF Cardinality(bs) > 1
      THEN /\ resp' = Fault("MultipleObjectsReturned")
           /\ UNCHANGED <<throttle, inflight, catalog, shops, product_infos, contacts, contactSeq, orders, orderSeq, items>>
    ELSE
      /\ orders' = orders \ bs
      /\ items' = Rows(items, {l \in DOMAIN items : \A o \in bs : l.order # o.id})
      /\ resp' = Ok(RowCount(items, {l \in DOMAIN items : \E o \in bs : l.order = o.id}), "none")
      /\ UNCHANGED <<throttle, inflight, catalog, shops, product_infos, contacts, contactSeq, orderSeq>>

\* BasketView.delete: remove_all(u)
BasketDelete(u) ==
  LET bs == Baskets(orders, u) IN
    IF bs = {}
      THEN /\ resp' = Ok(0, "none")
           /\ UNCHANGED <<throttle, inflight, catalog, shops, product_infos, contacts, contactSeq, orders, orderSeq, items>>
    ELSE IF Cardinality(bs) > 1
      THEN /\ resp' = Fault("MultipleObjectsReturned")
           /\ UNCHANGED <<throttle, inflight, catalog, shops, product_infos, contacts, contactSeq, orders, orderSeq, items>>
    ELSE
      LET b == (CHOOSE o \in bs : TRUE).id IN
        /\ items' = Rows(items, DOMAIN items \ LinesOf(items, b))
        /\ resp' = Ok(RowCount(items, LinesOf(items, b)), "none")
        /\ UNCHANGED <<throttle, inflight, catalog, shops, product_infos, contacts, contactSeq, orders, orderSeq>>

\* mutant of UpdateOrDelete: a quantity of 0 is stored
UpdateOrDelete_StoresZero(its, l, q) ==
  IF q >= 0
    THEN (its (-) SetToBag({l})) (+) SetToBag({[l EXCEPT !.quantity = q]})
  ELSE its (-) SetToBag({l})

\* the body of the loop of BasketView.put for the line l and the quantity q:
\* a quantity above 0 is stored, any other deletes the line
UpdateOrDelete(its, l, q) ==
  IF q > 0
    THEN (its (-) SetToBag({l})) (+) SetToBag({[l EXCEPT !.quantity = q]})
  ELSE its (-) SetToBag({l})

\* the loop of BasketView.put over items_list[i..], basket b, updated so far c
RECURSIVE UpdateOrderItems(_, _, _, _, _)
UpdateOrderItems(its, b, list, i, c) ==
  IF i > Len(list)
    THEN [items |-> its, resp |-> Ok(c, "none")]
  ELSE
    LET ls == LinesOn(its, b, list[i].product_info) IN
      IF ls = {}
        THEN UpdateOrderItems(its, b, list, i + 1, c)
      ELSE IF RowCount(its, ls) > 1
        THEN [items |-> its, resp |-> Fault("MultipleObjectsReturned")]
      ELSE
        LET l == CHOOSE x \in ls : TRUE IN
          UpdateOrderItems(UpdateOrDelete(its, l, list[i].quantity), b, list, i + 1, c + 1)

\* BasketView.put: update_items(u, list)
BasketPut(u, list) ==
  IF list = <<>>
    THEN /\ resp' = Fail("BadFormat")
         /\ UNCHANGED <<throttle, inflight, catalog, shops, product_infos, contacts, contactSeq, orders, orderSeq, items>>
  ELSE
    LET g == GetOrCreateBasket(orders, orderSeq, u) IN
      IF g.raised
        THEN /\ resp' = Fault("MultipleObjectsReturned")
             /\ UNCHANGED <<throttle, inflight, catalog, shops, product_infos, contacts, contactSeq, orders, orderSeq, items>>
      ELSE
        LET r == UpdateOrderItems(items, g.id, list, 1, 0) IN
          /\ g.seq <= MaxOrders
          /\ orders' = g.orders
          /\ orderSeq' = g.seq
          /\ items' = r.items
          /\ resp' = r.resp
          /\ UNCHANGED <<throttle, inflight, catalog, shops, product_infos, contacts, contactSeq>>

\* ------------------------------------------------------------- OrderView
\* mutant of GetBasketOrder: the lookup does not filter on the owner
GetBasketOrder_AnyOwner(os, u, order_id) ==
  {o \in os : o.id = order_id /\ o.state = "basket"}

\* Order.objects.get(user_id=u, id=order_id, state='basket')
GetBasketOrder(os, u, order_id) ==
  {o \in os : o.user = u /\ o.id = order_id /\ o.state = "basket"}

\* Contact.objects.get(user_id=u, id=contact_id)
GetOwnContact(cs, u, contact_id) == {c \in cs : c.user = u /\ c.id = contact_id}

\* mutant of PlacedOrder: the contact is not attached
PlacedOrder_NoContact(o, contact_id) == [o EXCEPT !.state = "new"]

\* mutant of PlacedOrder: the order skips the state new
PlacedOrder_Confirmed(o, contact_id) == [o EXCEPT !.contact = contact_id, !.state = "confirmed"]

\* order.contact = contact; order.state = 'new'
PlacedOrder(o, contact_id) == [o EXCEPT !.contact = contact_id, !.state = "new"]

\* the mail that the receiver of the new_order signal sends
new_order_signal == "new_order"

\* OrderView.post: place_order(u, order_id, contact_id); an id of 0 is a
\* missing or falsy field. The view saves the order and returns: it does not
\* send the new_order signal.
OrderPost(u, order_id, contact_id) ==
  IF order_id = 0 \/ contact_id = 0
    THEN /\ resp' = Fail("MissingArgs")
         /\ UNCHANGED <<throttle, inflight, catalog, shops, product_infos, contacts, contactSeq, orders, orderSeq, items>>
  ELSE IF GetBasketOrder(orders, u, order_id) = {}
    THEN /\ resp' = Fail("OrderNotFound")
         /\ UNCHANGED <<throttle, inflight, catalog, shops, product_infos, contacts, contactSeq, orders, orderSeq, items>>
  ELSE IF GetOwnContact(contacts, u, contact_id) = {}
    THEN /\ resp' = Fail("ContactNotFound")
         /\ UNCHANGED <<throttle, inflight, catalog, shops, product_infos, contacts, contactSeq, orders, orderSeq, items>>
  ELSE
    /\ orders' = {IF o.id = order_id THEN PlacedOrder(o, contact_id) ELSE o : o \in orders}
    /\ resp' = Ok(NoCount, "none")
    /\ UNCHANGED <<throttle, inflight, catalog, shops, product_infos, contacts, contactSeq, orderSeq, items>>

\* --------------------------------------------------------- PartnerOrders
\* ordered_items__product_info__shop__user_id=u: the order has a line on an
\* offer of a shop that u owns
HasLineOfSupplier(o, u) ==
  \E l \in DOMAIN items : /\ l.order = o.id
                   /\ \E p \in product_infos : /\ p.id = l.product_info
                                               /\ \E s \in shops : s.id = p.shop /\ s.user = u

\* mutant of GetSupplierOrder: the lookup does not filter on the shop's owner
GetSupplierOrder_AnyShop(u, order_id) ==
  {o \in orders : o.id = order_id /\ o.state \in EligibleStates}

\* Order.objects.filter(id=order_id, ordered_items__..._user_id=u, state__in=[...])
GetSupplierOrder(u, order_id) ==
  {o \in orders : o.id = order_id /\ HasLineOfSupplier(o, u) /\ o.state \in EligibleStates}

\* mutant of SavedOrders: a status of basket is not stored
SavedOrders_NeverBasket(os, order_id, status) ==
  {IF o.id = order_id /\ status # "basket" THEN [o EXCEPT !.state = status] ELSE o : o \in os}

\* order.state = status; order.save()
SavedOrders(os, order_id, status) ==
  {IF o.id = order_id THEN [o EXCEPT !.state = status] ELSE o : o \in os}

\* mutant of SendMailResponse: send_mail(..., fail_silently=True)
SendMailResponse_Silent(mailOk) ==
  IF mailOk THEN Ok(NoCount, "status_changed") ELSE Ok(NoCount, "none")

\* send_mail(..., fail_silently=False) and the response: Status true after
\* the mail is sent; an exception of the send is caught by except Exception
SendMailResponse(mailOk) ==
  IF mailOk THEN Ok(NoCount, "status_changed") ELSE Fail("Exception")

\* PartnerOrders.post: set_status(u, order_id, status); mailOk is whether
\* send_mail(..., fail_silently=False) delivers or raises.
PartnerOrdersPost(u, order_id, status, mailOk) ==
  IF UserType(u) # "shop"
    THEN /\ resp' = Fail("Forbidden")
         /\ UNCHANGED <<throttle, inflight, catalog, shops, product_infos, contacts, contactSeq, orders, orderSeq, items>>
  ELSE IF order_id = 0 \/ status = ""
    THEN /\ resp' = Fail("MissingArgs")
         /\ UNCHANGED <<throttle, inflight, catalog, shops, product_infos, contacts, contactSeq, orders, orderSeq, items>>
  ELSE IF status \notin STATE_CHOICES
    THEN /\ resp' = Fail("BadStatus")
         /\ UNCHANGED <<throttle, inflight, catalog, shops, product_infos, contacts, contactSeq, orders, orderSeq, items>>
  ELSE IF GetSupplierOrder(u, order_id) = {}
    THEN /\ resp' = Fail("OrderNotFound")
         /\ UNCHANGED <<throttle, inflight, catalog, shops, product_infos, contacts, contactSeq, orders, orderSeq, items>>
  ELSE
    /\ orders' = SavedOrders(orders, order_id, status)
    /\ resp' = SendMailResponse(mailOk)
    /\ UNCHANGED <<throttle, inflight, catalog, shops, product_infos, contacts, contactSeq, orderSeq, items>>

\* ----------------------------------------------------------- ContactView
\* ContactView.post: valid is ContactSerializer(data=...).is_valid()
ContactPost(u, valid) ==
  IF ~valid
    THEN /\ resp' = Fail("ValidationError")
         /\ UNCHANGED <<throttle, inflight, catalog, shops, product_infos, contacts, contactSeq, orders, orderSeq, items>>
  ELSE
    /\ contactSeq < MaxContacts
    /\ contacts' = contacts \cup {[id |-> contactSeq + 1, user |-> u]}
    /\ contactSeq' = contactSeq + 1
    /\ resp' = Ok(NoCount, "none")
    /\ UNCHANGED <<throttle, inflight, catalog, shops, product_infos, orders, orderSeq, items>>

\* the Order.contact foreign key when contacts cs are deleted: a contact that
\* an order references is kept (orders are never deleted and a placed order
\* keeps its contact), the delete raises and removes nothing
ContactIsProtected(os, cs) == \E o \in os : \E c \in cs : o.contact = c.id

\* Contact.objects.filter(query): query is the OR of Q(user_id=u, id=i) over
\* the numeric ids of "items"; with no numeric id it stays Q(), which matches
\* every row
ContactQuery(cs, u, ids) ==
  IF ids = {} THEN cs ELSE {c \in cs : c.user = u /\ c.id \in ids}

\* mutant of ContactDelete: the orders that reference a deleted contact go
\* with it
ContactDelete_Cascades(u, given, ids) ==
  IF ~given
    THEN /\ resp' = Fail("MissingArgs")
         /\ UNCHANGED <<throttle, inflight, catalog, shops, product_infos, contacts, contactSeq, orders, orderSeq, items>>
  ELSE
    LET gone == {c.id : c \in ContactQuery(contacts, u, ids)} IN
      /\ contacts' = contacts \ ContactQuery(contacts, u, ids)
      /\ orders' = {o \in orders : o.contact \notin gone}
      /\ resp' = Ok(Cardinality(gone), "none")
      /\ UNCHANGED <<throttle, inflight, catalog, shops, product_infos, contactSeq, orderSeq, items>>

\* ContactView.delete: given is whether "items" is a non-empty string, ids
\* the numeric ids it names
ContactDelete(u, given, ids) ==
  IF ~given
    THEN /\ resp' = Fail("MissingArgs")
         /\ UNCHANGED <<throttle, inflight, catalog, shops, product_infos, contacts, contactSeq, orders, orderSeq, items>>
  ELSE IF ContactIsProtected(orders, ContactQuery(contacts, u, ids))
    THEN /\ resp' = Fault("ProtectedError")
         /\ UNCHANGED <<throttle, inflight, catalog, shops, product_infos, contacts, contactSeq, orders, orderSeq, items>>
  ELSE
    /\ contacts' = contacts \ ContactQuery(contacts, u, ids)
    /\ resp' = Ok(Cardinality(ContactQuery(contacts, u, ids)), "none")
    /\ UNCHANGED <<throttle, inflight, catalog, shops, product_infos, contactSeq, orders, orderSeq, items>>


\* --------------------------------------------------------- the price list
\* request.user of a request without a token (AnonymousUser)
Anonymous == "anon"

\* a YAML scalar: an integer or a string of digits
YamlInt(n) == [t |-> "int", v |-> n]
YamlStr(n) == [t |-> "str", v |-> n]

\* str(x)
Str(x) == [t |-> "str", v |-> x.v]

\* the value a DecimalField or an integer field stores for the scalar x
ToNumber(x) == x.v

\* dict.get(k, default)
Get(d, k, default) == IF k \in DOMAIN d THEN d[k] ELSE default

\* the entry e without its field f
Lacking(e, f) == [k \in DOMAIN e \ {f} |-> e[k]]

\* the goods entries of the documents: two products, and entries that lack
\* a required field
Phone ==
  [id |-> 1, category |-> 1, name |-> "phone", model |-> "m1", price |-> YamlInt(1),
   price_rrc |-> YamlInt(2), quantity |-> YamlInt(1), parameters |-> [color |-> YamlInt(1)]]
Tv ==
  [id |-> 2, category |-> 2, name |-> "tv", price |-> YamlStr(2),
   price_rrc |-> YamlInt(2), quantity |-> YamlInt(2)]
GoodsInputs == {Phone, Tv, Lacking(Tv, "name"), Lacking(Tv, "price")}

\* longest goods list a document carries
MaxGoods == 2
GoodsListInputs == UNION {[1..n -> GoodsInputs] : n \in 0..MaxGoods}

\* the category lists of the documents
CategoryListInputs ==
  { <<[id |-> 1, name |-> "c1"], [id |-> 2, name |-> "c2"]>>,
    <<[id |-> 1, name |-> "c1"], [id |-> 2]>>,
    <<[id |-> 1, name |-> "phones"]>> }

\* the documents: a mapping with any of the keys shop, categories and goods
MappingInputs ==
  { sh @@ cs @@ gs :
      sh \in {<<>>, [shop |-> "market"]},
      cs \in {<<>>} \cup {[categories |-> c] : c \in CategoryListInputs},
      gs \in {<<>>} \cup {[goods |-> g] : g \in GoodsListInputs} }

\* what load_yaml returns: a mapping, or a value that is not a dict
Mapping(m) == [kind |-> "mapping", map |-> m]
NotAMapping == [kind |-> "list"]
DataInputs == {Mapping(m) : m \in MappingInputs} \cup {NotAMapping}

\* how the document reaches the view: request.FILES['file'], the url of
\* request.data or neither, and what reading and parsing it raises
LoadInputs ==
  {[source |-> "file", load |-> "ok", data |-> d] : d \in DataInputs}
    \cup {[source |-> "url", load |-> "ok", data |-> d] : d \in {Mapping([goods |-> <<Tv>>]), NotAMapping}}
    \cup {[source |-> "file", load |-> e, data |-> NoDocument] : e \in {"YAMLError", "Exception"}}
    \cup {[source |-> "url", load |-> e, data |-> NoDocument] :
            e \in {"YAMLError", "FileNotFoundError", "Exception"}}
    \cup {[source |-> "none", load |-> "ok", data |-> NoDocument]}

\* ProductInfo rows ever created (autoincrement ids 1..MaxProductInfos)
MaxProductInfos == 4


\* ---------------------------------------------------------- PartnerUpdate
\* mutant of GetOrCreateShop: a new Shop row at every import
GetOrCreateShop_AlwaysCreate(shs, u, doc) ==
  [id |-> Cardinality(shs) + 1,
   shops |-> shs \cup {[id |-> Cardinality(shs) + 1, user |-> u,
                        name |-> Get(doc, "shop", "unnamed")]}]

\* Shop.objects.get_or_create(user_id=u, defaults={'name': ...}) and
\* shop.name = data.get('shop', shop.name); shop.save()
GetOrCreateShop(shs, u, doc) ==
  LET own == {sh \in shs : sh.user = u}
      id == IF own = {} THEN Cardinality(shs) + 1 ELSE (CHOOSE sh \in own : TRUE).id
      name == IF own = {} THEN Get(doc, "shop", "unnamed") ELSE (CHOOSE sh \in own : TRUE).name
  IN [id |-> id,
      shops |-> (shs \ own) \cup {[id |-> id, user |-> u, name |-> Get(doc, "shop", name)]}]

\* the loop over data.get('categories', []) from entry i on: get_or_create
\* by id, then category_obj.shops.add(shop); a missing key raises KeyError
RECURSIVE SaveCategories(_, _, _, _)
SaveCategories(cs, shop, list, i) ==
  IF i > Len(list)
    THEN [categories |-> cs, error |-> "none"]
  ELSE IF ~({"id", "name"} \subseteq DOMAIN list[i])
    THEN [categories |-> cs, error |-> "KeyError"]
  ELSE
    LET found == {c \in cs : c.id = list[i].id}
        row == IF found = {}
                 THEN [id |-> list[i].id, name |-> list[i].name, shops |-> {shop}]
                 ELSE [(CHOOSE c \in found : TRUE) EXCEPT !.shops = @ \cup {shop}]
    IN SaveCategories((cs \ found) \cup {row}, shop, list, i + 1)

\* on_delete of ProductParameter.product_info: the attribute values of a
\* deleted offer go with it
CascadeProductParameters(pps, gone) == {pp \in pps : pp.product_info \notin gone}

\* on_delete of OrderItem.product_info: the order lines on a deleted offer
\* go with it
CascadeOrderItems(its, gone) == Rows(its, {l \in DOMAIN its : l.product_info \notin gone})

\* mutant of DeleteProductInfos: the offers of the shop stay
DeleteProductInfos_KeepsAll(db, shop) == db

\* ProductInfo.objects.filter(shop_id=shop.id).delete()
DeleteProductInfos(db, shop) ==
  LET gone == {p.id : p \in {q \in db.product_infos : q.shop = shop}} IN
    [db EXCEPT !.product_infos = {p \in @ : p.shop # shop},
               !.product_parameters = CascadeProductParameters(@, gone),
               !.items = CascadeOrderItems(@, gone)]

\* the foreign key of Product.category: the category row exists
CategoryExists(cs, id) == \E c \in cs : c.id = id

\* mutant of ProductInfoIsUnique: no constraint on the offers
ProductInfoIsUnique_Always(pis, shop, product) == TRUE

\* the uniqueness of an offer per shop and product
ProductInfoIsUnique(pis, shop, product) ==
  ~\E p \in pis : p.shop = shop /\ p.product = product

\* ProductInfo.objects.create(...) for the goods entry item
NewProductInfo(id, shop, product, item) ==
  [id |-> id, shop |-> shop, product |-> product, external_id |-> item.id,
   model |-> Get(item, "model", ""), price |-> ToNumber(item.price),
   price_rrc |-> ToNumber(item.price_rrc), quantity |-> ToNumber(item.quantity)]

\* mutant of SaveGoods: a goods entry that raises undoes the entries before it
RECURSIVE SaveGoods_Rollback(_, _, _, _)
SaveGoods_Rollback(db, shop, list, i) ==
  IF i > Len(list)
    THEN [db |-> db, error |-> "none"]
  ELSE IF ~({"name", "category", "id", "price", "price_rrc", "quantity"} \subseteq DOMAIN list[i])
    THEN [db |-> [db EXCEPT !.product_infos = {p \in @ : p.shop # shop}], error |-> "KeyError"]
  ELSE
    LET item == list[i]
        found == {p \in db.products : p.name = item.name /\ p.category = item.category}
        pid == IF found = {} THEN db.productSeq + 1 ELSE (CHOOSE p \in found : TRUE).id
        oid == db.productInfoSeq + 1
    IN SaveGoods_Rollback(
         [db EXCEPT !.products = @ \cup {[id |-> pid, name |-> item.name, category |-> item.category]},
                    !.productSeq = IF found = {} THEN @ + 1 ELSE @,
                    !.product_infos = @ \cup {NewProductInfo(oid, shop, pid, item)},
                    !.productInfoSeq = oid],
         shop, list, i + 1)

\* the loop over data.get('goods', []) from entry i on: get_or_create of the
\* Product, create of the ProductInfo, get_or_create of each Parameter and
\* create of each ProductParameter; each write commits on its own, and a
\* KeyError or an IntegrityError leaves the loop and the view
RECURSIVE SaveGoods(_, _, _, _)
SaveGoods(db, shop, list, i) ==
  IF i > Len(list)
    THEN [db |-> db, error |-> "none"]
  ELSE
    LET item == list[i] IN
      IF ~({"name", "category"} \subseteq DOMAIN item)
        THEN [db |-> db, error |-> "KeyError"]
      ELSE
        LET found == {p \in db.products : p.name = item.name /\ p.category = item.category} IN
          IF found = {} /\ ~CategoryExists(db.categories, item.category)
            THEN [db |-> db, error |-> "IntegrityError"]
          ELSE
            LET pid == IF found = {} THEN db.productSeq + 1 ELSE (CHOOSE p \in found : TRUE).id
                db1 == [db EXCEPT
                          !.products = @ \cup {[id |-> pid, name |-> item.name, category |-> item.category]},
                          !.productSeq = IF found = {} THEN @ + 1 ELSE @]
            IN
              IF ~({"id", "price", "price_rrc", "quantity"} \subseteq DOMAIN item)
                THEN [db |-> db1, error |-> "KeyError"]
              ELSE IF ~ProductInfoIsUnique(db1.product_infos, shop, pid)
                THEN [db |-> db1, error |-> "IntegrityError"]
              ELSE
                LET oid == db1.productInfoSeq + 1
                    ps == Get(item, "parameters", <<>>)
                    db2 == [db1 EXCEPT
                              !.product_infos = @ \cup {NewProductInfo(oid, shop, pid, item)},
                              !.productInfoSeq = oid,
                              !.parameters = @ \cup DOMAIN ps,
                              !.product_parameters = @ \cup
                                 {[product_info |-> oid, parameter |-> n, value |-> Str(ps[n])] :
                                    n \in DOMAIN ps}]
                IN SaveGoods(db2, shop, list, i + 1)

\* the tables that the goods part of the import writes
Tables ==
  [products |-> products, productSeq |-> productSeq, product_infos |-> product_infos,
   productInfoSeq |-> productInfoSeq, parameters |-> parameters,
   product_parameters |-> product_parameters, categories |-> categories, items |-> items]

\* mutant of LoadError: one error for every failure of the load
LoadError_Same(source, load) == "LoadFailed"

\* the error of a document that cannot be read, fetched or parsed
LoadError(source, load) ==
  IF load = "YAMLError" THEN "InvalidYaml"
  ELSE IF source = "file" THEN "FileReadError"
  ELSE IF load = "FileNotFoundError" THEN "LocalFileNotFound"
  ELSE "UrlLoadError"

\* PartnerUpdate.post: import(u, document), the document as it was loaded
PartnerUpdatePost(u, in) ==
  LET Rejected(error) ==
        /\ resp' = Fail(error)
        /\ UNCHANGED <<throttle, inflight, catalog, shops, product_infos, contacts, contactSeq, orders, orderSeq, items>>
  IN
  IF u = Anonymous THEN Rejected("LoginRequired")
  ELSE IF UserType(u) # "shop" THEN Rejected("Forbidden")
  ELSE IF in.source = "none" THEN Rejected("MissingSource")
  ELSE IF in.load # "ok" THEN Rejected(LoadError(in.source, in.load))
  ELSE IF in.data.kind # "mapping" THEN Rejected("InvalidStructure")
  ELSE
    LET doc == in.data.map
        g == GetOrCreateShop(shops, u, doc)
        c == SaveCategories(categories, g.id, Get(doc, "categories", <<>>), 1)
        goods == Get(doc, "goods", <<>>)
        r == SaveGoods(DeleteProductInfos([Tables EXCEPT !.categories = c.categories], g.id),
                       g.id, goods, 1)
    IN
      /\ productInfoSeq + Len(goods) <= MaxProductInfos
      /\ shops' = g.shops
      /\ UNCHANGED <<throttle, inflight, contacts, contactSeq, orders, orderSeq>>
      /\ IF c.error # "none"
           THEN /\ categories' = c.categories
                /\ resp' = Fault(c.error)
                /\ UNCHANGED <<products, productSeq, product_infos, productInfoSeq,
                               parameters, product_parameters, items>>
           ELSE /\ categories' = r.db.categories
                /\ products' = r.db.products
                /\ productSeq' = r.db.productSeq
                /\ product_infos' = r.db.product_infos
                /\ productInfoSeq' = r.db.productInfoSeq
                /\ parameters' = r.db.parameters
                /\ product_parameters' = r.db.product_parameters
                /\ items' = r.db.items
                /\ resp' = IF r.error = "none" THEN Ok(NoCount, "none") ELSE Fault(r.error)

\* ---------------------------------------------------------- PartnerExport
\* the rows of S as a sequence in the order of their ids: order_by('id')
RECURSIVE OrderById(_)
OrderById(S) ==
  IF S = {} THEN <<>>
  ELSE LET first == CHOOSE p \in S : \A q \in S : p.id <= q.id IN
         <<first>> \o OrderById(S \ {first})

\* product_data of PartnerExport.get for the offer pi
ProductData(pi) ==
  LET own == {pp \in product_parameters : pp.product_info = pi.id} IN
    [model |-> IF pi.external_id # 0 THEN pi.external_id ELSE pi.model,
     name |-> (CHOOSE p \in products : p.id = pi.product).name,
     price |-> YamlStr(pi.price),
     price_rrc |-> YamlStr(pi.price_rrc),
     quantity |-> YamlInt(pi.quantity),
     parameters |-> [n \in {pp.parameter : pp \in own} |->
                       (CHOOSE pp \in own : pp.parameter = n).value]]

\* export_data of PartnerExport.get for the shop sh
ExportData(sh) ==
  LET rows == OrderById({p \in product_infos : p.shop = sh.id}) IN
    Mapping([shop |-> sh.name, products |-> [i \in 1..Len(rows) |-> ProductData(rows[i])]])

\* PartnerExport.get: export(u)
PartnerExportGet(u) ==
  LET own == {sh \in shops : sh.user = u} IN
    /\ UNCHANGED <<throttle, inflight, catalog, shops, product_infos, contacts, contactSeq, orders, orderSeq, items>>
    /\ resp' = IF u = Anonymous THEN Fault("AttributeError")
               ELSE IF UserType(u) # "shop" THEN Fail("Forbidden")
               ELSE IF own = {} THEN Fail("ShopNotFound")
               ELSE Ok(NoCount, "none")

\* the body of the response of a successful export(u): yaml_data
Exported(u) == ExportData(CHOOSE sh \in shops : sh.user = u)

\* ------------------------------------------------------------------ Next
\* a request is served when no other is being answered
AddItems ==
  /\ req = NoRequest
  /\ \E u \in Buyers : \E list \in ItemsListInputs :
       BasketPost(u, list) /\ req' = Request("add_items", u, <<list>>)
UpdateItems ==
  /\ req = NoRequest
  /\ \E u \in Buyers : \E list \in ItemsListInputs :
       BasketPut(u, list) /\ req' = Request("update_items", u, <<list>>)
RemoveAll ==
  /\ req = NoRequest
  /\ \E u \in Buyers : BasketDelete(u) /\ req' = Request("remove_all", u, <<>>)
PlaceOrder ==
  /\ req = NoRequest
  /\ \E u \in Buyers : \E o \in OrderIdInputs : \E c \in ContactIdInputs :
       OrderPost(u, o, c) /\ req' = Request("place_order", u, <<o, c>>)
SetStatus ==
  /\ req = NoRequest
  /\ \E u \in Users : \E o \in OrderIdInputs : \E st \in StatusInputs : \E mailOk \in BOOLEAN :
       PartnerOrdersPost(u, o, st, mailOk) /\ req' = Request("set_status", u, <<o, st, mailOk>>)
CreateContact ==
  /\ req = NoRequest
  /\ \E u \in Buyers : \E valid \in BOOLEAN :
       ContactPost(u, valid) /\ req' = Request("contact_create", u, <<valid>>)
DeleteContacts ==
  /\ req = NoRequest
  /\ \E u \in Buyers : \E given \in BOOLEAN : \E ids \in SUBSET (1..MaxContacts) :
       ContactDelete(u, given, ids) /\ req' = Request("contact_delete", u, <<given, ids>>)

\* return JsonResponse(...): the response goes to the client
Return ==
  /\ req # NoRequest
  /\ req' = NoRequest
  /\ resp' = NoResponse
  /\ UNCHANGED <<throttle, inflight, catalog, shops, product_infos, contacts, contactSeq, orders, orderSeq, items>>

Next ==
  \/ AddItems
  \/ UpdateItems
  \/ RemoveAll
  \/ PlaceOrder
  \/ SetStatus
  \/ CreateContact
  \/ DeleteContacts
  \/ Return

Spec == Init /\ [][Next]_vars

\* ------------------------------------------------------------ SpecCatalog
\* the callers of the import and the export: the suppliers, a buyer and a
\* caller without a token
CatalogCallers == Suppliers \cup {"b1", Anonymous}

\* the documents that a caller who is not a supplier sends
OtherCallersInputs ==
  {[source |-> "file", load |-> "ok", data |-> Mapping([goods |-> <<Tv>>])],
   [source |-> "none", load |-> "ok", data |-> NoDocument]}

Import ==
  /\ req = NoRequest
  /\ \E u \in CatalogCallers :
       \E in \in IF u \in Suppliers THEN LoadInputs ELSE OtherCallersInputs :
         PartnerUpdatePost(u, in) /\ req' = Request("import", u, <<in>>)

\* the supplier who has just received the file of an export uploads it
ImportExported ==
  /\ req.op = "export"
  /\ resp.status = "ok"
  /\ LET u == req.user
         in == [source |-> "file", load |-> "ok", data |-> Exported(u)] IN
       PartnerUpdatePost(u, in) /\ req' = Request("import_exported", u, <<in>>)

Export ==
  /\ req = NoRequest
  /\ \E u \in CatalogCallers : PartnerExportGet(u) /\ req' = Request("export", u, <<>>)

\* A database where s1's shop lists one offer with an attribute value, s2 has
\* no shop yet and b1 holds a basket with a line on the offer.
InitCatalog ==
  /\ shops = {[id |-> 1, user |-> "s1", name |-> "shop1"]}
  /\ categories = {[id |-> 1, name |-> "c1", shops |-> {1}]}
  /\ products = {[id |-> 1, name |-> "phone", category |-> 1]}
  /\ productSeq = 1
  /\ product_infos = {FixtureOffer(1, 1)}
  /\ productInfoSeq = 1
  /\ parameters = {"color"}
  /\ product_parameters = {[product_info |-> 1, parameter |-> "color", value |-> YamlStr(1)]}
  /\ contacts = {}
  /\ contactSeq = 0
  /\ orders = {[id |-> 1, user |-> "b1", state |-> "basket", contact |-> 0]}
  /\ orderSeq = 1
  /\ items = SetToBag({[order |-> 1, product_info |-> 1, quantity |-> 1]})
  /\ req = NoRequest
  /\ resp = NoResponse
  /\ anon_history = 0
  /\ user_history = 0
  /\ inflight = [w \in Workers |-> Idle]

NextCatalog ==
  \/ Import
  \/ ImportExported
  \/ Export
  \/ Return

SpecCatalog == InitCatalog /\ [][NextCatalog]_vars

\* ----------------------------------------------------------- SpecThrottle
\* DEFAULT_THROTTLE_RATES 'anon' and 'user': the requests of one client that
\* a window of one hour admits
AnonRate == 60
UserRate == 300

\* the throttle_scope attribute of the view that answers op: neither
\* RegisterAccount nor LoginAccount (nor any other view) sets one
throttle_scope(op) == "none"

\* SimpleRateThrottle.allow_request on a history of h requests in the window:
\* a request is admitted while the history is shorter than the rate
AllowRequest(h, rate) == h < rate

\* the history after the request: throttle_success inserts the request,
\* throttle_failure does not
Recorded(h, rate) == IF AllowRequest(h, rate) THEN h + 1 ELSE h

\* ScopedRateThrottle.allow_request: a view without throttle_scope is
\* always admitted, and nothing is counted for it
ScopedAllowRequest(op) == throttle_scope(op) = "none"

\* APIView.check_throttles with DEFAULT_THROTTLE_CLASSES for a client that
\* sends no token: the request is refused when one of the three refuses it
Throttled(op) ==
  \/ ~AllowRequest(anon_history, AnonRate)
  \/ ~AllowRequest(user_history, UserRate)
  \/ ~ScopedAllowRequest(op)

\* what the body of a login request holds
LoginInputs == {"missing", "wrong", "right"}

\* LoginAccount.post
LoginAccountPost(in) ==
  CASE in = "missing" -> Fail("MissingArgs")
    [] in = "wrong" -> Fail("LoginFailed")
    [] OTHER -> Ok(NoCount, "none")

\* what the body of a registration request holds
RegisterInputs == {"missing", "weak_password", "invalid", "valid"}

\* RegisterAccount.post; the saved user's post_save signal sends the mail
\* with the confirmation token
RegisterAccountPost(in) ==
  CASE in = "missing" -> Fail("MissingArgs")
    [] in = "weak_password" -> Fail("PasswordError")
    [] in = "invalid" -> Fail("ValidationError")
    [] OTHER -> Ok(NoCount, "new_user_registered")

\* APIView.dispatch of a request without a token: every throttle is
\* consulted, and the view's method runs when none refuses (else 429)
Dispatch(op, served) ==
  /\ anon_history' = Recorded(anon_history, AnonRate)
  /\ user_history' = Recorded(user_history, UserRate)
  /\ resp' = IF Throttled(op) THEN Fail("Throttled") ELSE served
  /\ req' = Request(op, Anonymous, <<>>)
  /\ UNCHANGED <<inflight, catalog, shops, product_infos, contacts, contactSeq, orders, orderSeq, items>>

Login ==
  /\ req = NoRequest
  /\ \E in \in LoginInputs : Dispatch("login", LoginAccountPost(in))

Register ==
  /\ req = NoRequest
  /\ \E in \in RegisterInputs : Dispatch("register", RegisterAccountPost(in))

\* an hour passes in which the client sends nothing: every request of the
\* histories is older than the window and is dropped at the next request
WindowPasses ==
  /\ req = NoRequest
  /\ user_history > 0
  /\ anon_history' = 0
  /\ user_history' = 0
  /\ UNCHANGED <<inflight, catalog, shops, product_infos, contacts, contactSeq, orders, orderSeq, items, req, resp>>

NextThrottle ==
  \/ Login
  \/ Register
  \/ WindowPasses
  \/ Return

SpecThrottle == Init /\ [][NextThrottle]_vars

\* --------------------------------------------------------------- SpecRace
\* The basket requests of one buyer, processed by workers side by side: each
\* query of a view is a step of its own, and the steps of the workers and a
\* place_order of the buyer interleave.
RaceBuyer == "b1"

\* the items that the requests name: the offers of Init, with quantities
\* below, at and above nothing
RaceItemInputs == [product_info : 1..2, quantity : {-1, 0, 1}]

\* BasketView.post and BasketView.put up to their get_or_create: an empty
\* items_list is answered at once, else the basket is looked up (or made)
LookupBasket(w, op, empty) ==
  LET g == GetOrCreateBasket(orders, orderSeq, RaceBuyer) IN
    /\ inflight[w] = Idle
    /\ IF empty
         THEN /\ inflight' = [inflight EXCEPT
                   ![w] = InFlight(op, 0, 0, 0, NoItem, Fail("BadFormat"))]
              /\ UNCHANGED <<orders, orderSeq>>
       ELSE IF g.raised
         THEN /\ inflight' = [inflight EXCEPT
                   ![w] = InFlight(op, 0, 0, 0, NoItem, Fault("MultipleObjectsReturned"))]
              /\ UNCHANGED <<orders, orderSeq>>
       ELSE /\ g.seq <= MaxOrders
            /\ orders' = g.orders
            /\ orderSeq' = g.seq
            /\ inflight' = [inflight EXCEPT
                 ![w] = InFlight(op, g.id, 0, 0, NoItem, NoResponse)]
    /\ UNCHANGED <<throttle, catalog, shops, product_infos, contacts, contactSeq, items, req, resp>>

\* mutant of SaveOrderItem: the line is inserted whatever lines exist
SaveOrderItem_NoConstraint(w, it) ==
  LET f == inflight[w] IN
    /\ f.op = "add_items" /\ f.resp = NoResponse /\ f.n < MaxItems
    /\ IF ~OrderItemSerializerIsValid(product_infos, it)
         THEN /\ inflight' = [inflight EXCEPT ![w] =
                   InFlight(f.op, f.basket, f.n + 1, f.count, it, Fail("ValidationError"))]
              /\ UNCHANGED items
       ELSE /\ items' = items (+) SetToBag({[order |-> f.basket,
                                             product_info |-> it.product_info,
                                             quantity |-> it.quantity]})
            /\ inflight' = [inflight EXCEPT ![w] =
                 InFlight(f.op, f.basket, f.n + 1, f.count + 1, it, NoResponse)]
    /\ UNCHANGED <<throttle, catalog, shops, product_infos, contacts, contactSeq, orders, orderSeq, req, resp>>

\* one turn of the loop of BasketView.post for the item it: the serializer
\* validates it and saves a line on the basket that the worker looked up
SaveOrderItem(w, it) ==
  LET f == inflight[w] IN
    /\ f.op = "add_items" /\ f.resp = NoResponse /\ f.n < MaxItems
    /\ IF ~OrderItemSerializerIsValid(product_infos, it)
         THEN /\ inflight' = [inflight EXCEPT ![w] =
                   InFlight(f.op, f.basket, f.n + 1, f.count, it, Fail("ValidationError"))]
              /\ UNCHANGED items
       ELSE IF ~OrderItemIsUnique(items, f.basket, it.product_info)
         THEN /\ inflight' = [inflight EXCEPT ![w] =
                   InFlight(f.op, f.basket, f.n + 1, f.count, it, Fail("IntegrityError"))]
              /\ UNCHANGED items
       ELSE /\ items' = items (+) SetToBag({[order |-> f.basket,
                                             product_info |-> it.product_info,
                                             quantity |-> it.quantity]})
            /\ inflight' = [inflight EXCEPT ![w] =
                 InFlight(f.op, f.basket, f.n + 1, f.count + 1, it, NoResponse)]
    /\ UNCHANGED <<throttle, catalog, shops, product_infos, contacts, contactSeq, orders, orderSeq, req, resp>>

\* one turn of the loop of BasketView.put for the item it: the line of the
\* looked-up basket on the item's offer is fetched and stored or deleted
UpdateOrderItem(w, it) ==
  LET f == inflight[w]
      ls == LinesOn(items, f.basket, it.product_info)
  IN
    /\ f.op = "update_items" /\ f.resp = NoResponse /\ f.n < MaxItems
    /\ IF ls = {}
         THEN /\ inflight' = [inflight EXCEPT ![w] =
                   InFlight(f.op, f.basket, f.n + 1, f.count, it, NoResponse)]
              /\ UNCHANGED items
       ELSE IF RowCount(items, ls) > 1
         THEN /\ inflight' = [inflight EXCEPT ![w] =
                   InFlight(f.op, f.basket, f.n + 1, f.count, it, Fault("MultipleObjectsReturned"))]
              /\ UNCHANGED items
       ELSE /\ items' = UpdateOrDelete(items, CHOOSE x \in ls : TRUE, it.quantity)
            /\ inflight' = [inflight EXCEPT ![w] =
                 InFlight(f.op, f.basket, f.n + 1, f.count + 1, it, NoResponse)]
    /\ UNCHANGED <<throttle, catalog, shops, product_infos, contacts, contactSeq, orders, orderSeq, req, resp>>

\* the end of items_list: the loop is left and the count is answered
EndOfItemsList(w) ==
  LET f == inflight[w] IN
    /\ f.op \in {"add_items", "update_items"} /\ f.resp = NoResponse /\ f.n >= 1
    /\ inflight' = [inflight EXCEPT ![w] =
         InFlight(f.op, f.basket, f.n, f.count, NoItem, Ok(f.count, "none"))]
    /\ UNCHANGED <<throttle, catalog, shops, product_infos, contacts, contactSeq, orders, orderSeq, items, req, resp>>

\* BasketView.delete up to its Order.objects.get
GetBasket(w) ==
  LET bs == Baskets(orders, RaceBuyer) IN
    /\ inflight[w] = Idle
    /\ inflight' = [inflight EXCEPT ![w] =
         IF bs = {}
           THEN InFlight("remove_all", 0, 0, 0, NoItem, Ok(0, "none"))
         ELSE IF Cardinality(bs) > 1
           THEN InFlight("remove_all", 0, 0, 0, NoItem, Fault("MultipleObjectsReturned"))
         ELSE InFlight("remove_all", (CHOOSE o \in bs : TRUE).id, 0, 0, NoItem, NoResponse)]
    /\ UNCHANGED <<throttle, catalog, shops, product_infos, contacts, contactSeq, orders, orderSeq, items, req, resp>>

\* OrderItem.objects.filter(order=basket).delete() of BasketView.delete
DeleteOrderItems(w) ==
  LET f == inflight[w] IN
    /\ f.op = "remove_all" /\ f.resp = NoResponse
    /\ items' = Rows(items, DOMAIN items \ LinesOf(items, f.basket))
    /\ inflight' = [inflight EXCEPT ![w] =
         InFlight(f.op, f.basket, 0, 0, NoItem, Ok(RowCount(items, LinesOf(items, f.basket)), "none"))]
    /\ UNCHANGED <<throttle, catalog, shops, product_infos, contacts, contactSeq, orders, orderSeq, req, resp>>

BeginAddItems == \E w \in Workers : \E empty \in BOOLEAN : LookupBasket(w, "add_items", empty)
BeginUpdateItems == \E w \in Workers : \E empty \in BOOLEAN : LookupBasket(w, "update_items", empty)
BeginRemoveAll == \E w \in Workers : GetBasket(w)
SaveItem == \E w \in Workers : \E it \in RaceItemInputs : SaveOrderItem(w, it)
UpdateItem == \E w \in Workers : \E it \in RaceItemInputs : UpdateOrderItem(w, it)
EndItems == \E w \in Workers : EndOfItemsList(w)
DeleteItems == \E w \in Workers : DeleteOrderItems(w)

\* return JsonResponse(...) of a worker
Respond ==
  \E w \in Workers :
    /\ inflight[w].resp # NoResponse
    /\ inflight' = [inflight EXCEPT ![w] = Idle]
    /\ UNCHANGED <<throttle, catalog, shops, product_infos, contacts, contactSeq, orders, orderSeq, items, req, resp>>

\* OrderView.post of the buyer, on an order id and the buyer's contact
PlaceBasket ==
  /\ req = NoRequest
  /\ \E o \in 1..MaxOrders :
       OrderPost(RaceBuyer, o, 1) /\ req' = Request("place_order", RaceBuyer, <<o, 1>>)

\* the database of Init, where the buyer has a contact to place orders with
InitRace ==
  /\ shops = {[id |-> 1, user |-> "s1", name |-> "shop1"],
              [id |-> 2, user |-> "s2", name |-> "shop2"]}
  /\ categories = {[id |-> 1, name |-> "c1", shops |-> {}]}
  /\ products = {[id |-> 1, name |-> "phone", category |-> 1]}
  /\ productSeq = 1
  /\ product_infos = {FixtureOffer(1, 1), FixtureOffer(2, 2)}
  /\ productInfoSeq = 2
  /\ parameters = {}
  /\ product_parameters = {}
  /\ contacts = {[id |-> 1, user |-> RaceBuyer]}
  /\ contactSeq = 1
  /\ orders = {}
  /\ orderSeq = 0
  /\ items = EmptyBag
  /\ req = NoRequest
  /\ resp = NoResponse
  /\ anon_history = 0
  /\ user_history = 0
  /\ inflight = [w \in Workers |-> Idle]

NextRace ==
  \/ BeginAddItems
  \/ BeginUpdateItems
  \/ BeginRemoveAll
  \/ SaveItem
  \/ UpdateItem
  \/ EndItems
  \/ DeleteItems
  \/ Respond
  \/ PlaceBasket
  \/ Return

SpecRace == InitRace /\ [][NextRace]_vars

\* the shape of the state
TypeOK ==
  /\ orderSeq \in 0..MaxOrders
  /\ contactSeq \in 0..MaxContacts
  /\ orders \subseteq [id : 1..MaxOrders, user : Users, state : STATE_CHOICES, contact : 0..MaxContacts]
  /\ IsABag(items)
  /\ DOMAIN items \subseteq [order : 1..MaxOrders, product_info : ProductInfoInputs, quantity : Int]
  /\ contacts \subseteq [id : 1..MaxContacts, user : Users]
  /\ req.op \in {"none", "add_items", "update_items", "remove_all", "place_order",
                 "set_status", "contact_create", "contact_delete",
                 "import", "import_exported", "export", "login", "register"}
  /\ anon_history \in 0..AnonRate
  /\ user_history \in 0..UserRate
  /\ req.user \in Users \cup {"none", Anonymous}
  /\ productInfoSeq \in 0..MaxProductInfos
  /\ \A p \in product_infos : p.id \in 1..productInfoSeq /\ \E sh \in shops : sh.id = p.shop
  /\ \A pp \in product_parameters : \E p \in product_infos : p.id = pp.product_info
  /\ resp.status \in {"none", "ok", "fail", "fault"}
  /\ resp.count \in (0..MaxItems) \cup {NoCount}
  /\ (req = NoRequest) <=> (resp = NoResponse)

\* ================================================================ claims
\* the position of a state on the chain basket -> ... -> delivered
Rank(st) ==
  CASE st = "basket" -> 0
    [] st = "new" -> 1
    [] st = "confirmed" -> 2
    [] st = "assembled" -> 3
    [] st = "sent" -> 4
    [] st = "delivered" -> 5
    [] OTHER -> 6

\* the orders whose state a step changes, as <<before, after>> rows
StateChanges == {<<o, n>> \in orders \X orders' : o.id = n.id /\ o.state # n.state}

\* a step is a successful place_order
PlaceOrderStep == req'.op = "place_order" /\ resp'.status = "ok"

\* C1: every buyer has at most one Order in state basket, in every reachable
\* state, after any sequence of add_items, update_items, remove_all,
\* place_order and set_status requests.
C1_AtMostOneBasket == \A u \in Users : Cardinality(Baskets(orders, u)) <= 1

C3_StateChangesFollowTheChain ==
  [][\A ch \in StateChanges :
       /\ \/ /\ ch[2].state # "canceled"
             /\ ch[1].state # "canceled"
             /\ Rank(ch[1].state) < Rank(ch[2].state)
          \/ /\ ch[2].state = "canceled"
             /\ ch[1].state \notin {"delivered", "canceled"}
       /\ ch[1].state = "basket" => ch[2].state = "new" /\ PlaceOrderStep]_vars

\* the preconditions of place_order(u, oid, cid)
OwnsBasketOrder(u, oid) == \E o \in orders : o.id = oid /\ o.user = u /\ o.state = "basket"
OwnsContact(u, cid) == \E c \in contacts : c.id = cid /\ c.user = u

\* C4: place_order(u, oid, cid) on a basket order of u with a contact of u
\* returns Status true; afterwards the order is in state new with that
\* contact attached, every other order is as before and no line has changed.
C4_PlaceOrderSucceeds ==
  [][req'.op = "place_order" =>
       LET u == req'.user  oid == req'.args[1]  cid == req'.args[2] IN
       (OrderPost(u, oid, cid) /\ OwnsBasketOrder(u, oid) /\ OwnsContact(u, cid))
         => /\ resp'.status = "ok"
            /\ \E o \in orders' : o.id = oid /\ o.user = u /\ o.state = "new" /\ o.contact = cid
            /\ {o \in orders' : o.id # oid} = {o \in orders : o.id # oid}
            /\ Cardinality(orders') = Cardinality(orders)
            /\ items' = items]_vars

\* C4 witness: a place_order has succeeded on an order that has lines
C4_Witness ==
  /\ req.op = "place_order" /\ resp.status = "ok"
  /\ \E o \in orders : o.state = "new" /\ o.contact # 0 /\ LinesOf(items, o.id) # {}

\* C5: every successful place_order sends the "order accepted" notification
\* exactly once: a step sends that notification if and only if it moves an
\* order from basket to new; a failed place_order sends none.
C5_PlaceOrderNotifiesOnce ==
  [][(\E ch \in StateChanges : ch[1].state = "basket" /\ ch[2].state = "new")
       <=> resp'.mail = new_order_signal]_vars

\* C6: place_order that names an order and a contact (0 is a missing
\* argument) fails with the not-found error and changes no order when
\* the named order is not a basket order of the caller or the named contact
\* is not a contact of the caller; the response for an order of another user
\* is the response for an order that is already placed.
C6_PlaceOrderNotFound ==
  [][req'.op = "place_order" =>
       LET u == req'.user  oid == req'.args[1]  cid == req'.args[2] IN
       (OrderPost(u, oid, cid) /\ oid # 0 /\ cid # 0
          /\ ~(OwnsBasketOrder(u, oid) /\ OwnsContact(u, cid)))
         => /\ resp'.status = "fail"
            /\ resp'.error = IF OwnsBasketOrder(u, oid) THEN "ContactNotFound" ELSE "OrderNotFound"
            /\ orders' = orders
            /\ items' = items]_vars

\* C6 witness: place_order has failed with the order not found while every
\* order is already placed
C6_Witness ==
  /\ req.op = "place_order" /\ resp.status = "fail" /\ resp.error = "OrderNotFound"
  /\ orders # {}
  /\ \A o \in orders : o.state = "new"

\* ------------------------------------------------- claims on the basket
\* the buyer's basket in the state before the step is defined
OneBasketAtMost(u) == Cardinality(Baskets(orders, u)) <= 1

\* the lines that u's basket has on the offer p before the step
BasketLinesOn(u, p) == UNION {LinesOn(items, b.id, p) : b \in Baskets(orders, u)}

\* the id of u's basket after the step
BasketAfter(u) == (CHOOSE o \in Baskets(orders', u) : TRUE).id

\* item i of the list names an existing offer and a positive quantity
IsValidItem(list, i) ==
  /\ \E p \in product_infos : p.id = list[i].product_info
  /\ list[i].quantity >= 1

\* item i of the list names an offer that has a line in u's basket when the
\* item's turn comes: a line from before the request or of an earlier item
IsDuplicateItem(u, list, i) ==
  \/ BasketLinesOn(u, list[i].product_info) # {}
  \/ \E j \in 1..(i - 1) : list[j].product_info = list[i].product_info

\* the line that item i of the list creates in the basket b
LineOfItem(b, list, i) ==
  [order |-> b, product_info |-> list[i].product_info, quantity |-> list[i].quantity]

\* C7: add_items with valid items on distinct offers that the basket does not
\* hold yet returns Status true with a created count equal to the number of
\* items and adds exactly one line per item, with its offer and quantity, to
\* the buyer's basket: the basket is created when the buyer has none, and no
\* order is created when the buyer has one.
C7_AddItemsCreatesLines ==
  [][req'.op = "add_items" =>
       LET u == req'.user  list == req'.args[1] IN
         ( /\ list # <<>>
           /\ OneBasketAtMost(u)
           /\ \A i \in 1..Len(list) : IsValidItem(list, i) /\ ~IsDuplicateItem(u, list, i)
           /\ BasketPost(u, list) )
           => /\ resp'.status = "ok"
              /\ resp'.count = Len(list)
              /\ Cardinality(Baskets(orders', u)) = 1
              /\ IF Baskets(orders, u) = {}
                   THEN orders' = orders \cup {[id |-> orderSeq + 1, user |-> u,
                                                state |-> "basket", contact |-> 0]}
                   ELSE orders' = orders
              /\ items' = items (+) SetToBag({LineOfItem(BasketAfter(u), list, i) : i \in 1..Len(list)})]_vars

\* C7 witness: an add_items of two items has created both lines
C7_Witness ==
  /\ req.op = "add_items" /\ resp.status = "ok" /\ resp.count = 2
  /\ \E o \in orders : o.state = "basket" /\ RowCount(items, LinesOf(items, o.id)) = 2

\* C8: when add_items names an offer that already has a line in the basket,
\* only that item fails: the response carries the count of the lines that were
\* created and the error of the failed line, and every item that is not a
\* duplicate has its line.
C8_DuplicateReportsCountAndError ==
  [][req'.op = "add_items" =>
       LET u == req'.user  list == req'.args[1] IN
         ( /\ list # <<>>
           /\ OneBasketAtMost(u)
           /\ \A i \in 1..Len(list) : IsValidItem(list, i)
           /\ \E i \in 1..Len(list) : IsDuplicateItem(u, list, i)
           /\ BasketPost(u, list) )
           => /\ resp'.error = "IntegrityError"
              /\ resp'.count = BagCardinality(items') - BagCardinality(items)
              /\ \A i \in 1..Len(list) :
                   ~IsDuplicateItem(u, list, i) => LineOfItem(BasketAfter(u), list, i) \in DOMAIN items']_vars

\* the first item of the list that fails: invalid or a duplicate (0 if none)
FirstFailing(u, list) ==
  LET F == {i \in 1..Len(list) : ~IsValidItem(list, i) \/ IsDuplicateItem(u, list, i)} IN
    IF F = {} THEN 0 ELSE CHOOSE k \in F : \A i \in F : k <= i

\* C9: add_items is not atomic: when item k is the first to fail, the call
\* answers with an error and the lines of the items 1..k-1 stay in the basket.
C9_AddItemsKeepsEarlierLines ==
  [][req'.op = "add_items" =>
       LET u == req'.user  list == req'.args[1] IN
         ( /\ list # <<>>
           /\ OneBasketAtMost(u)
           /\ FirstFailing(u, list) # 0
           /\ BasketPost(u, list) )
           => /\ resp'.status = "fail"
              /\ resp'.error \in {"ValidationError", "IntegrityError"}
              /\ items' = items (+) SetToBag({LineOfItem(BasketAfter(u), list, i) :
                                               i \in 1..(FirstFailing(u, list) - 1)})]_vars

\* C9 witness: an add_items has failed and the basket holds a line
C9_Witness ==
  /\ req.op = "add_items" /\ resp.status = "fail"
  /\ Cardinality(orders) = 1
  /\ BagCardinality(items) = 1

\* the items of the list that find a line of their offer in u's basket when
\* their turn comes: the line was there before the request and no earlier
\* item of the list has deleted it
Affecting(u, list) ==
  {i \in 1..Len(list) :
     /\ BasketLinesOn(u, list[i].product_info) # {}
     /\ \A j \in 1..(i - 1) :
          list[j].product_info = list[i].product_info => list[j].quantity > 0}

\* C10: update_items, item by item: a line of the basket whose offer an item
\* names gets the item's quantity when that is above 0 and is deleted when it
\* is 0; an item whose offer has no line is skipped; the response is Status
\* true with the number of updates and deletions; the lines of offers that
\* the list does not name, and the lines of other orders, stay as they are.
C10_UpdateItems ==
  [][req'.op = "update_items" =>
       LET u == req'.user  list == req'.args[1] IN
         (list # <<>> /\ OneBasketAtMost(u) /\ BasketPut(u, list))
           => LET A == Affecting(u, list)
                  b == BasketAfter(u)
                  named == {list[i].product_info : i \in 1..Len(list)}
                  \* the last item that acts on the line of offer p
                  last(p) == CHOOSE i \in A : list[i].product_info = p
                                /\ \A j \in A : list[j].product_info = p => j <= i
                  untouched(its) == Rows(its, {l \in DOMAIN its : l.order # b \/ l.product_info \notin named})
              IN /\ resp'.status = "ok"
                 /\ resp'.count = Cardinality(A)
                 /\ \A p \in named :
                      IF \E i \in A : list[i].product_info = p
                        THEN IF list[last(p)].quantity > 0
                               THEN Rows(items', LinesOn(items', b, p))
                                      = SetToBag({LineOfItem(b, list, last(p))})
                               ELSE LinesOn(items', b, p) = {}
                        ELSE LinesOn(items', b, p) = {}
                 /\ untouched(items') = untouched(items)]_vars

\* C10 witness: an update_items of two items has updated or deleted two lines
\* and a line is left with a quantity above 1
C10_Witness ==
  /\ req.op = "update_items" /\ resp.status = "ok" /\ resp.count = 2
  /\ \E l \in DOMAIN items : l.quantity > 1

\* C11: update_items that names, with quantity 0, only offers that have no
\* line in the caller's basket is a no-op: Status true with a count of 0, and
\* the orders and the order lines are exactly as before, also when the caller
\* has no basket order.
C11_UpdateZeroIsNoOp ==
  [][req'.op = "update_items" =>
       LET u == req'.user  list == req'.args[1] IN
         ( /\ list # <<>>
           /\ OneBasketAtMost(u)
           /\ \A i \in 1..Len(list) :
                /\ list[i].quantity = 0
                /\ BasketLinesOn(u, list[i].product_info) = {}
           /\ BasketPut(u, list) )
           => /\ resp'.status = "ok"
              /\ resp'.count = 0
              /\ orders' = orders
              /\ items' = items]_vars

IsEligibleFor(u, oid) ==
  \E o \in orders :
    /\ o.id = oid
    /\ o.state \in {"new", "confirmed", "assembled", "sent"}
    /\ \E l \in DOMAIN items : \E p \in product_infos : \E sh \in shops :
         l.order = oid /\ l.product_info = p.id /\ p.shop = sh.id /\ sh.user = u

\* C16: set_status by a supplier changes an order only if the order has a
\* line on an offer of the supplier's shop and is in state new, confirmed,
\* assembled or sent; for any other order id (no such line, unknown order,
\* order in basket, delivered or canceled) with a status of the enum it fails
\* with the combined not-found error, changes nothing and sends no mail.
C16_SetStatusOnlyEligible ==
  [][req'.op = "set_status" =>
       LET u == req'.user  oid == req'.args[1]  st == req'.args[2] IN
         /\ orders' # orders => IsEligibleFor(u, oid)
         /\ (u \in Suppliers /\ oid # 0 /\ st \in STATE_CHOICES /\ ~IsEligibleFor(u, oid))
              => /\ resp'.status = "fail"
                 /\ resp'.error = "OrderNotFound"
                 /\ resp'.mail = "none"
                 /\ orders' = orders
                 /\ items' = items]_vars

\* C16 witness: set_status has failed on a placed order that holds lines of
\* another supplier's shop only
C16_Witness ==
  /\ req.op = "set_status" /\ resp.error = "OrderNotFound"
  /\ \E o \in orders : /\ o.id = req.args[1]
                        /\ o.state = "new"
                        /\ LinesOf(items, o.id) # {}
                        /\ ~IsEligibleFor(req.user, o.id)

C18_MailFailureKeepsState ==
  [][req'.op = "set_status" =>
       LET u == req'.user  oid == req'.args[1]  st == req'.args[2]  mailOk == req'.args[3] IN
         (IsEligibleFor(u, oid) /\ st \in STATE_CHOICES /\ ~mailOk)
           => /\ resp'.status = "fail"
              /\ resp'.mail = "none"
              /\ \A o \in orders : o.id = oid => [o EXCEPT !.state = st] \in orders'
              /\ {o \in orders' : o.id # oid} = {o \in orders : o.id # oid}
              /\ items' = items
              /\ contacts' = contacts]_vars

\* C18 witness: a set_status whose mail failed has answered with an error and
\* the order is in the status it named
C18_Witness ==
  /\ req.op = "set_status" /\ resp.status = "fail" /\ resp.error = "Exception"
  /\ req.args[2] = "sent"
  /\ \E o \in orders : o.id = req.args[1] /\ o.state = "sent"

\* ---------------------------------------------- claims on the price list
\* the step is an import request
ImportStep == req'.op \in {"import", "import_exported"}

\* the goods entries of the document of the import request r
GoodsOf(r) ==
  LET in == r.args[1] IN
    IF in.data.kind = "mapping" THEN Get(in.data.map, "goods", <<>>) ELSE <<>>

\* the offers of the caller's shop before and after the step
OffersBefore(u) == {p \in product_infos : \E sh \in shops : sh.user = u /\ p.shop = sh.id}
OffersAfter(u) == {p \in product_infos' : \E sh \in shops' : sh.user = u /\ p.shop = sh.id}

\* the offer p is the one that the import creates from entry i of goods
IsOfferOfEntry(p, goods, i) ==
  /\ p.id = productInfoSeq + i
  /\ p.external_id = goods[i].id
  /\ p.price = goods[i].price.v
  /\ p.price_rrc = goods[i].price_rrc.v
  /\ p.quantity = goods[i].quantity.v
  /\ \E pr \in products' : pr.id = p.product /\ pr.name = goods[i].name
                           /\ pr.category = goods[i].category

\* the shop of u lists exactly the offers of entries 1..n of goods after the
\* step, none of its offers or attribute values from before is left, and the
\* offers of the other shops are as before
ReplacedByEntries(u, goods, n) ==
  /\ Cardinality(OffersAfter(u)) = n
  /\ \A i \in 1..n : \E p \in OffersAfter(u) : IsOfferOfEntry(p, goods, i)
  /\ OffersAfter(u) \cap product_infos = {}
  /\ \A p \in OffersBefore(u) :
       /\ ~\E q \in product_infos' : q.id = p.id
       /\ ~\E pp \in product_parameters' : pp.product_info = p.id
  /\ product_infos' \ OffersAfter(u) = product_infos \ OffersBefore(u)

\* C13: after a successful import the offers of the caller's shop are exactly
\* the offers created from the goods entries of the document, one per entry;
\* no offer that the shop had before, and no attribute value of such an
\* offer, exists any more; the offers of other shops are untouched.
C13_ImportReplacesOffers ==
  [][(ImportStep /\ resp'.status = "ok")
       => ReplacedByEntries(req'.user, GoodsOf(req'), Len(GoodsOf(req')))]_vars

\* C13 witness: a shop that listed two imported offers has re-imported a
\* document of one goods entry and lists one offer
C13_Witness ==
  /\ req.op = "import" /\ resp.status = "ok"
  /\ Len(GoodsOf(req)) = 1
  /\ productInfoSeq = 4
  /\ \E sh \in shops : /\ sh.user = req.user
                       /\ Cardinality({p \in product_infos : p.shop = sh.id}) = 1
                       /\ \A p \in product_infos : p.shop = sh.id => p.id = 4

\* the required fields of a goods entry
RequiredFields == {"name", "category", "id", "price", "price_rrc", "quantity"}

\* the first goods entry that lacks a required field (0 if none)
FirstLacking(goods) ==
  LET L == {i \in 1..Len(goods) : ~(RequiredFields \subseteq DOMAIN goods[i])} IN
    IF L = {} THEN 0 ELSE CHOOSE k \in L : \A i \in L : k <= i

\* the category entries of the request are complete, and the entries 1..n of
\* goods are on distinct products of categories that exist
EntriesAreSound(r, goods, n) ==
  /\ LET cats == Get(r.args[1].data.map, "categories", <<>>) IN
       \A i \in 1..Len(cats) : {"id", "name"} \subseteq DOMAIN cats[i]
  /\ \A i \in 1..n : \E c \in categories' : c.id = goods[i].category
  /\ \A i, j \in 1..n :
       (goods[i].name = goods[j].name /\ goods[i].category = goods[j].category) => i = j

\* C14: when goods entry k is the first that lacks a required field, the
\* import ends in an exception, not in a report of success, and leaves the
\* partially applied state: the offers that the shop had before are deleted
\* and the shop lists exactly the offers of the entries 1..k-1.
C14_ImportAbortsPartially ==
  [][(ImportStep /\ req'.user \in Suppliers /\ req'.args[1].load = "ok"
        /\ req'.args[1].data.kind = "mapping")
       => LET goods == GoodsOf(req')
              k == FirstLacking(goods)
          IN (k # 0 /\ EntriesAreSound(req', goods, k - 1))
               => /\ resp'.status = "fault"
                  /\ ReplacedByEntries(req'.user, goods, k - 1)]_vars

\* C14 witness: an import whose second goods entry lacks a field has raised
\* and the shop lists the offer of the first entry only
C14_Witness ==
  /\ req.op = "import" /\ resp.status = "fault" /\ resp.error = "KeyError"
  /\ Len(GoodsOf(req)) = 2
  /\ FirstLacking(GoodsOf(req)) = 2
  /\ \E sh \in shops : /\ sh.user = req.user
                       /\ {p.id : p \in {q \in product_infos : q.shop = sh.id}} = {productInfoSeq}

\* the (product name, price, price_rrc, quantity, parameter map) tuples of
\* the offers of u's shop in the tables pis, prs, pps
CatalogTuples(u, shs, pis, prs, pps) ==
  { [name |-> (CHOOSE pr \in prs : pr.id = p.product).name,
     price |-> p.price, price_rrc |-> p.price_rrc, quantity |-> p.quantity,
     parameters |-> {<<pp.parameter, pp.value>> : pp \in {x \in pps : x.product_info = p.id}}] :
      p \in {q \in pis : \E sh \in shs : sh.user = u /\ q.shop = sh.id} }

\* C15: export followed by the import of the exported document is a round
\* trip: the tuples of the shop's offers after the import are the tuples
\* before the export.
C15_ExportImportRoundTrip ==
  [][req'.op = "import_exported"
       => CatalogTuples(req'.user, shops', product_infos', products', product_parameters')
            = CatalogTuples(req'.user, shops, product_infos, products, product_parameters)]_vars

\* C19: every basket, checkout, import, export and fulfillment request ends
\* in a structured response, Status true or Status false with an error, and
\* never in an unhandled fault.
C19_NoUnhandledFault == resp.status # "fault"

\* the import request r is rejected before the processing starts
IsRejectedEarly(r) ==
  LET in == r.args[1] IN
    \/ r.user \notin Suppliers
    \/ in.source = "none"
    \/ in.load # "ok"
    \/ in.data.kind # "mapping"

\* C20: an import that is rejected before the processing starts (caller
\* without a token or not a supplier, no file and no url, document that
\* cannot be fetched or parsed, top level not a mapping) answers Status false
\* and creates, changes and deletes no shop, category, product, offer,
\* attribute value or order line; a parse failure and a fetch failure give
\* different errors.
C20_RejectedImportChangesNothing ==
  [][(req'.op = "import" /\ IsRejectedEarly(req'))
       => /\ resp'.status = "fail"
          /\ UNCHANGED <<catalog, shops, product_infos, items, orders>>
          /\ LET in == req'.args[1] IN
               (req'.user \in Suppliers /\ in.source # "none" /\ in.load # "ok")
                 => (resp'.error = "InvalidYaml") <=> (in.load = "YAMLError")]_vars

\* C20 witness: the import of a supplier who has no shop has failed on the
\* fetch of the url, and the supplier still has no shop
C20_Witness ==
  /\ req.op = "import" /\ resp.status = "fail" /\ resp.error = "UrlLoadError"
  /\ ~\E sh \in shops : sh.user = req.user

\* the category entries of the document of the import request r
CategoriesOf(r) ==
  LET in == r.args[1] IN
    IF in.data.kind = "mapping" THEN Get(in.data.map, "categories", <<>>) ELSE <<>>

\* C21: after a successful import every category entry {id, name} of the
\* document exists as a Category with that id and that name, also when a
\* Category of that id existed before under another name.
C21_ImportRenamesCategories ==
  [][(ImportStep /\ resp'.status = "ok")
       => \A i \in 1..Len(CategoriesOf(req')) :
            \E c \in categories' : /\ c.id = CategoriesOf(req')[i].id
                                   /\ c.name = CategoriesOf(req')[i].name]_vars

C30_ImportTouchesOwnShopOnly ==
  [][ImportStep
       => LET u == req'.user
              others(pis, shs) == {p \in pis : \E sh \in shs : sh.id = p.shop /\ sh.user # u}
              values(pps, pis, shs) == {pp \in pps : \E p \in others(pis, shs) : p.id = pp.product_info}
          IN /\ others(product_infos', shops') = others(product_infos, shops)
             /\ values(product_parameters', product_infos', shops')
                  = values(product_parameters, product_infos, shops)
             /\ {sh \in shops' : sh.user # u} = {sh \in shops : sh.user # u}
             /\ \A s \in Suppliers : Cardinality({sh \in shops' : sh.user = s}) <= 1
             /\ (\E sh \in shops : sh.user = u) => Cardinality(shops') = Cardinality(shops)]_vars

\* C30 witness: a supplier has imported again while the shop of the other
\* supplier lists an offer with an attribute value
C30_Witness ==
  /\ req.op = "import" /\ resp.status = "ok" /\ Len(GoodsOf(req)) = 1
  /\ Cardinality(shops) = 2
  /\ \E p \in product_infos :
       /\ \E sh \in shops : sh.id = p.shop /\ sh.user # req.user
       /\ \E pp \in product_parameters : pp.product_info = p.id
  /\ \E p \in product_infos :
       /\ \E sh \in shops : sh.id = p.shop /\ sh.user = req.user
       /\ p.id = productInfoSeq /\ p.id >= 3

\* ------------------------------------------------ claims on the lifecycle
\* C26: canceled and delivered are absorbing: an order in state canceled or
\* delivered is the same row after every step, whichever request is served.
C26_CanceledAndDeliveredAbsorb ==
  [][\A o \in orders : o.state \in {"canceled", "delivered"} => o \in orders']_vars

\* C26 witness: a set_status of the supplier on a delivered order of the
\* supplier's shop has failed
C26_Witness ==
  /\ req.op = "set_status" /\ resp.status = "fail" /\ resp.error = "OrderNotFound"
  /\ \E o \in orders : /\ o.id = req.args[1]
                        /\ o.state = "delivered"
                        /\ HasLineOfSupplier(o, req.user)

C29_ContactDeleteOwnOnly ==
  [][req'.op = "contact_delete"
       => \A c \in contacts : c.user # req'.user => c \in contacts']_vars

\* the requests that test_throttling.py expects to be served in one window
ServedRequests == 5

\* C22: on the login endpoint and on the registration endpoint the first 5
\* requests of one client within the rate window are served (not 429), and a
\* request that follows 5 or more within the same window is answered 429.
C22_SixthRequestIsThrottled ==
  [][req'.op \in {"login", "register"}
       => ((resp'.error = "Throttled") <=> (anon_history >= ServedRequests))]_vars

\* C23: in every reachable state there is at most one order line per
\* (order, offer) pair, whatever add_items and update_items calls of the
\* same buyer have run, interleaved ones included.
C23_OneLinePerOrderAndOffer ==
  \A l \in DOMAIN items :
    /\ items[l] = 1
    /\ \A m \in DOMAIN items :
         (m.order = l.order /\ m.product_info = l.product_info) => m = l

\* two add_items requests are in flight on one basket and name the same
\* offer: one has saved its line, the other has been refused
C23_Witness ==
  \E w, v \in Workers :
    /\ w # v
    /\ inflight[w].op = "add_items" /\ inflight[v].op = "add_items"
    /\ inflight[w].basket = inflight[v].basket
    /\ inflight[w].item.product_info = inflight[v].item.product_info
    /\ inflight[w].resp = Fail("IntegrityError")
    /\ inflight[v].resp = NoResponse /\ inflight[v].count >= 1

\* the worker w takes the next item of its items_list in this step
ItemTaken(w) == inflight'[w].n = inflight[w].n + 1

C28_PlacedOrderLinesAreFrozen ==
  [][\A o \in orders :
       o.state # "basket"
         => Rows(items', LinesOf(items', o.id)) = Rows(items, LinesOf(items, o.id))]_vars

============================================================================
